---- MODULE Spec2Model ----
(***************************************************************************)
(* Model of the threat-trend detection workbook parser (src/js/excel.js)   *)
(* and of the upload handler of the page (src/js/app.js).                  *)
(*                                                                         *)
(* A JavaScript string is a sequence of code units.  Each code unit is a   *)
(* TLA+ string: ASCII characters stand for themselves, a Hangul syllable   *)
(* is written by its romanisation ("raen" for U+B79C), and the middle dot  *)
(* U+00B7 is "MIDDOT".  Len is String.prototype.length.                    *)
(*                                                                         *)
(* A sheet cell is a record [t, s, n]: a string cell (t = "str", text s),  *)
(* a numeric cell (t = "num", value n) or a date cell (t = "date", value   *)
(* n = yyyymmdd).  The empty string cell is what sheet_to_json's           *)
(* defval: "" yields for a missing cell.                                   *)
(***************************************************************************)
EXTENDS Integers, Sequences, FiniteSets, TLC

VARIABLES wb, pc, k, ti, threats, detections, threatId, detectionId,
          spamRows, ndrRows, wafRows, kwTitle, kwOut,
          activeThreats, activeDetections, status, uploads,
          fmThreats, fmTitle, fmOut

\* the state of the page script (src/js/app.js)
app == <<activeThreats, activeDetections, status, uploads>>

\* the arguments and the result of a call of findMatchingThreat
fm == <<fmThreats, fmTitle, fmOut>>

vars == <<wb, pc, k, ti, threats, detections, threatId, detectionId,
          spamRows, ndrRows, wafRows, kwTitle, kwOut, app, fm>>

-----------------------------------------------------------------------------
(* Bounds of the model *)

MaxArticles == 2
MaxMailRows == 3
MaxNdrRows == 3
MaxWafRows == 2
MaxTitleLen == 4

-----------------------------------------------------------------------------
(* Strings *)

\* /\s/ restricted to the white space the inputs use
IsSpace(c) == c \in {" ", "\t", "\n"}

\* String.prototype.includes: needle occurs as a contiguous run of hay
Includes(hay, needle) ==
  \E i \in 1..(Len(hay) - Len(needle) + 1) :
     SubSeq(hay, i, i + Len(needle) - 1) = needle

\* variant: the prefix may stand anywhere in the name
StartsWith_Includes(s, prefix) == Includes(s, prefix)

\* String.prototype.startsWith
StartsWith(s, prefix) ==
  /\ Len(prefix) <= Len(s)
  /\ SubSeq(s, 1, Len(prefix)) = prefix

RECURSIVE TrimLeft(_)
TrimLeft(s) ==
  IF s # <<>> /\ IsSpace(Head(s)) THEN TrimLeft(Tail(s)) ELSE s

RECURSIVE TrimRight(_)
TrimRight(s) ==
  IF s # <<>> /\ IsSpace(s[Len(s)]) THEN TrimRight(SubSeq(s, 1, Len(s) - 1)) ELSE s

\* String.prototype.trim
Trim(s) == TrimRight(TrimLeft(s))

RECURSIVE Join(_, _)
\* Array.prototype.join over an array of strings
Join(ss, sep) ==
  IF ss = <<>> THEN <<>>
  ELSE IF Len(ss) = 1 THEN ss[1]
  ELSE ss[1] \o sep \o Join(Tail(ss), sep)

RECURSIVE Distinct(_)
\* [...new Set(xs)]: first occurrence of each value, in insertion order
Distinct(xs) ==
  IF xs = <<>> THEN <<>>
  ELSE LET front == Distinct(SubSeq(xs, 1, Len(xs) - 1))
           x == xs[Len(xs)]
       IN IF \E j \in 1..Len(front) : front[j] = x THEN front ELSE Append(front, x)

\* xs.filter(Boolean) over an array of strings
NonEmpty(xs) == SelectSeq(xs, LAMBDA x : x # <<>>)

\* xs.map(f)
MapSeq(xs, f(_)) == [j \in 1..Len(xs) |-> f(xs[j])]

Digit(d) == CASE d = 0 -> "0" [] d = 1 -> "1" [] d = 2 -> "2" [] d = 3 -> "3"
              [] d = 4 -> "4" [] d = 5 -> "5" [] d = 6 -> "6" [] d = 7 -> "7"
              [] d = 8 -> "8" [] d = 9 -> "9"

RECURSIVE NatToStr(_)
NatToStr(n) == IF n < 10 THEN <<Digit(n)>> ELSE Append(NatToStr(n \div 10), Digit(n % 10))

\* String(n) / template interpolation of an integer
NumToStr(n) == IF n < 0 THEN <<"-">> \o NatToStr(0 - n) ELSE NatToStr(n)

RECURSIVE ReplaceAll(_, _, _)
\* s.replace(/pat/g, rep) for a literal pattern
ReplaceAll(s, pat, rep) ==
  IF s = <<>> THEN <<>>
  ELSE IF StartsWith(s, pat) THEN rep \o ReplaceAll(SubSeq(s, Len(pat) + 1, Len(s)), pat, rep)
  ELSE <<Head(s)>> \o ReplaceAll(Tail(s), pat, rep)

RECURSIVE ReplaceFirst(_, _, _)
\* s.replace(pat, rep) for a literal pattern: first occurrence only
ReplaceFirst(s, pat, rep) ==
  IF s = <<>> THEN <<>>
  ELSE IF StartsWith(s, pat) THEN rep \o SubSeq(s, Len(pat) + 1, Len(s))
  ELSE <<Head(s)>> \o ReplaceFirst(Tail(s), pat, rep)

-----------------------------------------------------------------------------
(* Cells and JavaScript coercions *)

StrCell(s) == [t |-> "str", s |-> s, n |-> 0]
NumCell(n) == [t |-> "num", s |-> <<>>, n |-> n]
DateCell(n) == [t |-> "date", s |-> <<>>, n |-> n]
EmptyCell == StrCell(<<>>)

\* ToBoolean: "" and 0 are falsy, a Date object is truthy
Truthy(c) ==
  CASE c.t = "str" -> c.s # <<>>
    [] c.t = "num" -> c.n # 0
    [] c.t = "date" -> TRUE

TwoDigits(n) == <<Digit(n \div 10), Digit(n % 10)>>

\* Date.prototype.toLocaleDateString("ko-KR", {year: "numeric", month: "2-digit", day: "2-digit"})
toLocaleDateString(n) ==
  NatToStr(n \div 10000) \o <<".", " ">> \o TwoDigits((n \div 100) % 100)
     \o <<".", " ">> \o TwoDigits(n % 100) \o <<".">>

\* String(x); a Date object prints as an opaque text that no keyword occurs in
JsString(c) ==
  CASE c.t = "str" -> c.s
    [] c.t = "num" -> NumToStr(c.n)
    [] c.t = "date" -> <<"DateObject">>

\* String(x || "")
StringOrEmpty(c) == IF Truthy(c) THEN JsString(c) ELSE <<>>

IsDigit(ch) == ch \in {"0", "1", "2", "3", "4", "5", "6", "7", "8", "9"}

DigitVal(ch) == CHOOSE d \in 0..9 : Digit(d) = ch

RECURSIVE ParseNat(_)
ParseNat(s) == IF s = <<>> THEN 0 ELSE 10 * ParseNat(SubSeq(s, 1, Len(s) - 1)) + DigitVal(s[Len(s)])

AllDigits(s) == s # <<>> /\ \A j \in 1..Len(s) : IsDigit(s[j])

\* Unary plus (ToNumber) on a cell; the result is [nan, v].  Integers only.
ToNumber(c) ==
  CASE c.t = "num" -> [nan |-> FALSE, v |-> c.n]
    [] c.t = "date" -> [nan |-> FALSE, v |-> c.n]
    [] c.t = "str" ->
         LET s == Trim(c.s) IN
         IF s = <<>> THEN [nan |-> FALSE, v |-> 0]
         ELSE IF AllDigits(s) THEN [nan |-> FALSE, v |-> ParseNat(s)]
         ELSE IF Head(s) = "-" /\ AllDigits(Tail(s)) THEN [nan |-> FALSE, v |-> 0 - ParseNat(Tail(s))]
         ELSE IF Head(s) = "+" /\ AllDigits(Tail(s)) THEN [nan |-> FALSE, v |-> ParseNat(Tail(s))]
         ELSE [nan |-> TRUE, v |-> 0]

\* +x || d  (NaN and 0 are falsy)
NumberOr(c, d) == LET x == ToNumber(c) IN IF x.nan \/ x.v = 0 THEN d ELSE x.v

\* formatDate(val)
formatDate(val) ==
  IF ~Truthy(val) THEN <<>>
  ELSE IF val.t = "date"
       THEN ReplaceFirst(ReplaceAll(toLocaleDateString(val.n), <<".", " ">>, <<"-">>), <<".">>, <<>>)
       ELSE JsString(val)

-----------------------------------------------------------------------------
(* extractKeywords *)

stopWords ==
  { <<"mit">>, <<"ui">>, <<"eul">>, <<"reul">>, <<"i">>, <<"ga">>, <<"eun">>, <<"neun">>,
    <<"e">>, <<"seo">>, <<"ro">>, <<"wa">>, <<"gwa">>, <<"do">>, <<"man">>,
    <<"gwan", "ryeon">>, <<"dae", "sang">>, <<"tong", "hae">>, <<"wi", "han">>,
    <<"sa", "yong">>, <<"tong", "han">>, <<"wi", "hae">>, <<"it", "neun">>,
    <<"it", "eo">>, <<"ha", "neun">>, <<"ha", "yeo">>, <<"eu", "ro">>, <<"e", "seo">>,
    <<"bu", "teo">>, <<"kka", "ji">>, <<"dae", "han">>, <<"tong", "hae", "seo">> }

\* the character class of /[\s,·\-\/\[\]\(\)]+/
IsSeparator(c) == IsSpace(c) \/ c \in {",", "MIDDOT", "-", "/", "[", "]", "(", ")"}

RECURSIVE SplitAt(_, _, _, _)
SplitAt(s, i, cur, acc) ==
  IF i > Len(s) THEN Append(acc, cur)
  ELSE IF IsSeparator(s[i])
       THEN IF i > 1 /\ IsSeparator(s[i - 1])
            THEN SplitAt(s, i + 1, cur, acc)
            ELSE SplitAt(s, i + 1, <<>>, Append(acc, cur))
       ELSE SplitAt(s, i + 1, Append(cur, s[i]), acc)

\* title.split(/[\s,·\-\/\[\]\(\)]+/)
SplitTitle(s) == SplitAt(s, 1, <<>>, <<>>)

\* variant: w.length > 2 instead of w.length >= 2
IsKeyword_LongerThan2(w) == Len(w) > 2 /\ w \notin stopWords

\* the filter predicate of extractKeywords
IsKeyword(w) == Len(w) >= 2 /\ w \notin stopWords

extractKeywords(title) ==
  SelectSeq(MapSeq(SplitTitle(title), Trim), IsKeyword)

RECURSIVE SplitLinesAt(_, _, _, _)
SplitLinesAt(s, i, cur, acc) ==
  IF i > Len(s) THEN Append(acc, cur)
  ELSE IF s[i] = "\n" THEN SplitLinesAt(s, i + 1, <<>>, Append(acc, cur))
  ELSE SplitLinesAt(s, i + 1, Append(cur, s[i]), acc)

\* a1.split("\n").map((l) => l.trim()).filter(Boolean)
SplitLines(a1) == NonEmpty(MapSeq(SplitLinesAt(a1, 1, <<>>, <<>>), Trim))

-----------------------------------------------------------------------------
(* Texts of the input family *)

sRansomware == <<"raen", "seom", "we", "eo">>
sAttack == <<"gong", "gyeok">>
sIncrease == <<"jeung", "ga">>
sUrgent == <<"gin", "geup">>
sNDR == <<"N", "D", "R">>
sDetect == <<"tam", "ji">>
sResponse == <<"dae", "eung">>
sRelated == <<"gwan", "ryeon">>
sBlock == <<"cha", "dan">>

\* "랜섬웨어 공격 증가"
TitleRansom == sRansomware \o <<" ">> \o sAttack \o <<" ">> \o sIncrease
\* "긴급 NDR 탐지 및 대응"
TitleNdr == sUrgent \o <<" ">> \o sNDR \o <<" ">> \o sDetect \o <<" ", "mit", " ">> \o sResponse
\* "및 의 관련": stopwords and one-character tokens only
TitleStop == <<"mit", " ", "ui", " ">> \o sRelated

\* A1 cells of article sheets: title only, title and body, stopword title,
\* white space only (a threat with the empty title), no A1 cell (skipped)
A1Set ==
  { StrCell(TitleRansom),
    StrCell(<<" ">> \o TitleNdr \o <<" ", "\n", "bon", "mun", "\n">>),
    StrCell(TitleStop),
    StrCell(<<" ", "\n">>),
    EmptyCell }

\* sheet names
ArticlePrefix == <<"nyu", "seu", "gi", "sa">>
SpamSheetName == <<"seu", "paem", "seu", "na", "i", "peo">>
NdrSheetName == <<"N", "D", "R", "ro", "geu">>
WafSheetName == <<"wep", "bang", "hwa", "byeok", "ro", "geu">>
\* a name that contains the article prefix without starting with it
OtherSheetName == <<"gu", "nyu", "seu", "gi", "sa">>
ArticleName(j) == ArticlePrefix \o NatToStr(j)

MailRow(date, subject, sender, recipient, filterInfo) ==
  [date |-> date, subject |-> StrCell(subject), sender |-> StrCell(sender),
   recipient |-> StrCell(recipient), filterInfo |-> StrCell(filterInfo)]

MailHeader == MailRow(StrCell(<<"nal", "jja">>), <<"je", "mok">>, <<"bal", "sin", "ja">>,
                      <<"su", "sin", "ja">>, <<"pil", "teo">>)

MailRansom ==
  MailRow(DateCell(20240105), sRansomware \o <<"!">>, <<"a", "@", "x">>, <<"r", "1">>, <<"spam">>)

\* data rows of the mail sheet
MailRowSet ==
  { \* keyword of TitleRansom in the subject only; a Date cell
    MailRansom,
    \* keyword of TitleRansom in the sender only; the same day as text
    MailRow(StrCell(<<"2", "0", "2", "4", "-", "0", "1", "-", "0", "5">>), <<"hi">>,
            sAttack \o <<"@", "x">>, <<"r", "1">>, <<>>),
    \* no date, subject or sender: not ingested, although the recipient has a keyword
    MailRow(EmptyCell, <<>>, <<>>, sRansomware, <<"spam">>),
    \* the raw stopword title, another letter case of NDR, a keyword in the recipient only
    MailRow(NumCell(0), TitleStop, <<"n", "d", "r">>, sUrgent, <<"virus">>),
    \* keyword of TitleNdr in the subject
    MailRow(DateCell(20240106), sNDR, <<"a", "@", "x">>, <<"r", "2">>, <<"spam">>) }

\* columns A, C, E, G of an NDR row, and column J, which the header comment
\* of excel.js documents as the event count and which parseExcel never reads
NdrRow(ruleName, logSource, srcIP, dstIP, colJ) ==
  [ruleName |-> StrCell(ruleName), logSource |-> StrCell(logSource),
   srcIP |-> StrCell(srcIP), dstIP |-> StrCell(dstIP), colJ |-> colJ]

NdrHeader == NdrRow(<<"Rule">>, <<"Source">>, <<"SrcIP">>, <<"DstIP">>, StrCell(<<"Count">>))

\* rule name containing "랜섬웨어", event count column 4
NdrRansom == NdrRow(sRansomware \o <<"_", "C", "2">>, <<"fw">>, <<"1">>, <<"2">>, NumCell(4))

\* data rows of the NDR sheet
NdrRowSet ==
  { \* keyword of TitleRansom in the rule name only
    NdrRansom,
    \* keyword of TitleNdr in the log source only
    NdrRow(<<"x">>, <<"_">> \o sNDR, <<"1">>, <<"3">>, NumCell(2)),
    \* another letter case, a stopword, a keyword in the source IP column only
    NdrRow(<<"n", "d", "r", " ">> \o sRelated, <<>>, sAttack, <<>>, EmptyCell),
    \* no rule name, log source or source IP: not ingested
    NdrRow(<<>>, <<>>, <<>>, sRansomware, NumCell(9)) }

WafRow(clientIP, serverIP, urlDomain, ruleName, patternName, basis, countRaw, action) ==
  [time |-> StrCell(<<"t">>), clientIP |-> StrCell(clientIP), serverIP |-> StrCell(serverIP),
   urlDomain |-> StrCell(urlDomain), ruleName |-> StrCell(ruleName),
   patternName |-> StrCell(patternName), basis |-> StrCell(basis),
   countRaw |-> countRaw, action |-> StrCell(action)]

WafHeader == WafRow(<<"Client">>, <<"Server">>, <<"URL">>, <<"Rule">>, <<"Pattern">>,
                    <<"Basis">>, StrCell(<<"Count">>), <<"Action">>)

\* URL domain containing "공격", count 3
WafAttack ==
  WafRow(<<"c", "1">>, <<"s", "1">>, sAttack \o <<".", "kr">>, <<"r">>, <<>>, <<>>,
         NumCell(3), <<>>)

\* data rows of the web firewall sheet
WafRowSet ==
  { WafAttack,
    \* keyword of TitleRansom in the rule name only, no count cell, action "탐지"
    WafRow(<<"c", "1">>, <<"s", "2">>, <<>>, sRansomware, <<>>, <<>>, EmptyCell, sDetect),
    \* keyword of TitleNdr and of TitleRansom in the pattern name only, count 2
    WafRow(<<"c", "2">>, <<"s", "1">>, <<>>, <<"r">>, sNDR \o <<"/">> \o sIncrease, <<>>,
           NumCell(2), sBlock),
    \* keyword of TitleNdr in the basis only, negative count
    WafRow(<<"c", "2">>, <<>>, <<"u">>, <<"r">>, <<>>, sResponse, NumCell(0 - 5), <<>>),
    \* keyword of TitleRansom in the URL domain only, count 0
    WafRow(<<"c", "3">>, <<"s", "1">>, sIncrease, <<"q">>, <<>>, <<>>, NumCell(0), sBlock),
    \* keyword of TitleNdr in the basis only, a text in the count cell; a keyword of
    \* TitleRansom in the client IP column only, a stopword, another letter case of NDR
    WafRow(sAttack, <<"s", "3">>, <<"n", "d", "r">>, sRelated, <<>>, sDetect,
           StrCell(<<"a", "b", "c">>), <<>>),
    \* no time, client IP or rule name: not ingested
    [WafRow(<<>>, <<>>, sAttack, <<>>, <<>>, <<>>, NumCell(7), <<>>) EXCEPT !.time = EmptyCell] }

-----------------------------------------------------------------------------
(* Workbooks *)

SeqsUpTo(S, n) == UNION {[1..m -> S] : m \in 0..n}

DistinctSeqsUpTo(S, n) ==
  {q \in SeqsUpTo(S, n) : \A i, j \in 1..Len(q) : i # j => q[i] # q[j]}

NoSheet == [present |-> FALSE, rows |-> <<>>]
Sheet(rows) == [present |-> TRUE, rows |-> rows]

ArticleLists == SeqsUpTo(A1Set, MaxArticles)
MailSheets == {NoSheet} \cup {Sheet(<<MailHeader>> \o d) : d \in SeqsUpTo(MailRowSet, MaxMailRows)}
NdrSheets == {NoSheet} \cup {Sheet(<<NdrHeader>> \o d) : d \in SeqsUpTo(NdrRowSet, MaxNdrRows)}
\* the web firewall sheet holds each of its rows at most once
WafSheets ==
  {NoSheet} \cup {Sheet(<<WafHeader>> \o d) : d \in DistinctSeqsUpTo(WafRowSet, MaxWafRows)}

\* what the two other log sheets hold while one log sheet ranges over its contents
OthersOfMail == {<<NoSheet, NoSheet>>, <<Sheet(<<NdrHeader, NdrRansom>>), Sheet(<<WafHeader, WafAttack>>)>>}
OthersOfNdr == {<<NoSheet, NoSheet>>, <<Sheet(<<MailHeader, MailRansom>>), Sheet(<<WafHeader, WafAttack>>)>>}
OthersOfWaf == {<<NoSheet, Sheet(<<>>)>>, <<Sheet(<<MailHeader, MailRansom>>), Sheet(<<NdrHeader, NdrRansom>>)>>}

\* A readable workbook: an optional sheet with an unrecognised name, the
\* article sheets in order, then the log sheets that are present.
MkWb(other, arts, mail, ndr, waf) ==
  LET names == (IF other THEN <<OtherSheetName>> ELSE <<>>)
                 \o [j \in 1..Len(arts) |-> ArticleName(j)]
                 \o (IF mail.present THEN <<SpamSheetName>> ELSE <<>>)
                 \o (IF ndr.present THEN <<NdrSheetName>> ELSE <<>>)
                 \o (IF waf.present THEN <<WafSheetName>> ELSE <<>>)
  IN [kind |-> "ok",
      SheetNames |-> names,
      Sheets |-> [nm \in {names[j] : j \in 1..Len(names)} |->
                    IF nm = SpamSheetName THEN [A1 |-> MailHeader.date, rows |-> mail.rows]
                    ELSE IF nm = NdrSheetName THEN [A1 |-> NdrHeader.ruleName, rows |-> ndr.rows]
                    ELSE IF nm = WafSheetName THEN [A1 |-> WafHeader.time, rows |-> waf.rows]
                    ELSE IF nm = OtherSheetName THEN [A1 |-> StrCell(TitleRansom), rows |-> <<>>]
                    ELSE [A1 |-> arts[CHOOSE j \in 1..Len(arts) : ArticleName(j) = nm],
                          rows |-> <<>>]]]

\* a file whose bytes XLSX.read cannot parse, and a file the FileReader cannot read
CorruptWb == [kind |-> "corrupt", SheetNames |-> <<>>, Sheets |-> <<>>]
UnreadableWb == [kind |-> "unreadable", SheetNames |-> <<>>, Sheets |-> <<>>]

\* article lists that go with every content of a log sheet: one matching
\* title, two matching titles, and a stopword title, an empty title and a
\* matching title together
FixedArticleLists ==
  { <<StrCell(TitleRansom)>>,
    <<StrCell(TitleRansom), StrCell(<<" ">> \o TitleNdr \o <<" ", "\n", "bon", "mun", "\n">>)>>,
    <<StrCell(TitleStop), StrCell(<<" ", "\n">>), StrCell(TitleRansom)>> }

\* log sheets that go with every article list: none, and one matching row each
FixedLogSheets ==
  { <<NoSheet, NoSheet, NoSheet>>,
    <<Sheet(<<MailHeader, MailRansom>>), Sheet(<<NdrHeader, NdrRansom>>),
      Sheet(<<WafHeader, WafAttack>>)>> }

\* The input family: the fixed article lists with one log sheet ranging over
\* all its contents and the two others absent, empty or holding one matching
\* row; every article list with the fixed log sheets; workbooks with a sheet
\* of an unrecognised name; a corrupt and an unreadable file.
Workbooks ==
  {MkWb(FALSE, a, m, o[1], o[2]) : a \in FixedArticleLists, m \in MailSheets, o \in OthersOfMail}
    \cup {MkWb(FALSE, a, o[1], n, o[2]) : a \in FixedArticleLists, n \in NdrSheets, o \in OthersOfNdr}
    \cup {MkWb(FALSE, a, o[1], o[2], w) : a \in FixedArticleLists, w \in WafSheets, o \in OthersOfWaf}
    \cup {MkWb(FALSE, a, l[1], l[2], l[3]) : a \in ArticleLists, l \in FixedLogSheets}
    \cup {MkWb(TRUE, a, m, NoSheet, NoSheet) :
             a \in SeqsUpTo(A1Set, 1), m \in {NoSheet, Sheet(<<MailHeader, MailRansom>>)}}
    \cup {CorruptWb, UnreadableWb}

HasSheet(name) == name \in DOMAIN wb.Sheets

-----------------------------------------------------------------------------
(* parseExcel: ingestion *)

\* variant: the counter is increased before it is read (++threatId)
ThreatOf_PreIncrement(id, a1) ==
  LET lines == SplitLines(a1) IN
  [id |-> id + 1,
   title |-> IF lines # <<>> THEN lines[1] ELSE <<>>,
   source |-> <<>>, date |-> <<>>,
   body |-> IF lines = <<>> THEN <<>> ELSE Join(Tail(lines), <<"\n">>),
   tags |-> <<>>]

\* the threat pushed for an article sheet whose A1 text is a1
ThreatOf(id, a1) ==
  LET lines == SplitLines(a1) IN
  [id |-> id,
   title |-> IF lines # <<>> THEN lines[1] ELSE <<>>,
   source |-> <<>>, date |-> <<>>,
   body |-> IF lines = <<>> THEN <<>> ELSE Join(Tail(lines), <<"\n">>),
   tags |-> <<>>]

\* data rows start at index 1 of the row array (index 0 is the header)
DataRows(rows) == IF Len(rows) <= 1 THEN <<>> ELSE SubSeq(rows, 2, Len(rows))

SpamKept(r) == ~(~Truthy(r.date) /\ ~Truthy(r.subject) /\ ~Truthy(r.sender))

SpamRowOf(r) ==
  [date |-> r.date, subject |-> StringOrEmpty(r.subject), sender |-> StringOrEmpty(r.sender),
   recipient |-> StringOrEmpty(r.recipient), filterInfo |-> StringOrEmpty(r.filterInfo)]

IngestSpam(rows) == MapSeq(SelectSeq(DataRows(rows), SpamKept), SpamRowOf)

NdrKept(r) == ~(~Truthy(r.ruleName) /\ ~Truthy(r.logSource) /\ ~Truthy(r.srcIP))

NdrRowOf(r) ==
  [ruleName |-> StringOrEmpty(r.ruleName), logSource |-> StringOrEmpty(r.logSource),
   srcIP |-> StringOrEmpty(r.srcIP), dstIP |-> StringOrEmpty(r.dstIP)]

IngestNdr(rows) == MapSeq(SelectSeq(DataRows(rows), NdrKept), NdrRowOf)

WafKept(r) == ~(~Truthy(r.time) /\ ~Truthy(r.clientIP) /\ ~Truthy(r.ruleName))

\* count: +countRaw || 1
WafCountOf(countRaw) == NumberOr(countRaw, 1)

\* action: String(action || "차단")
WafActionOf(action) == IF Truthy(action) THEN JsString(action) ELSE sBlock

WafRowOf(r) ==
  [clientIP |-> StringOrEmpty(r.clientIP), serverIP |-> StringOrEmpty(r.serverIP),
   urlDomain |-> StringOrEmpty(r.urlDomain), ruleName |-> StringOrEmpty(r.ruleName),
   patternName |-> StringOrEmpty(r.patternName), basis |-> StringOrEmpty(r.basis),
   count |-> WafCountOf(r.countRaw), action |-> WafActionOf(r.action)]

IngestWaf(rows) == MapSeq(SelectSeq(DataRows(rows), WafKept), WafRowOf)

-----------------------------------------------------------------------------
(* parseExcel: matching and aggregation *)

\* variant: keywords.every instead of keywords.some
MailMatches_Every(keywords, row) ==
  \A j \in 1..Len(keywords) :
     Includes(row.subject, keywords[j]) \/ Includes(row.sender, keywords[j])

\* keywords.some((kw) => row.subject.includes(kw) || row.sender.includes(kw))
MailMatches(keywords, row) ==
  \E j \in 1..Len(keywords) :
     Includes(row.subject, keywords[j]) \/ Includes(row.sender, keywords[j])

\* variant: the source IP column takes part in the match
NdrMatches_AlsoSrcIP(keywords, row) ==
  \E j \in 1..Len(keywords) :
     \/ Includes(row.ruleName, keywords[j])
     \/ Includes(row.logSource, keywords[j])
     \/ Includes(row.srcIP, keywords[j])

\* keywords.some((kw) => row.ruleName.includes(kw) || row.logSource.includes(kw))
NdrMatches(keywords, row) ==
  \E j \in 1..Len(keywords) :
     Includes(row.ruleName, keywords[j]) \/ Includes(row.logSource, keywords[j])

\* variant: the basis field is left out of the match
WafMatches_NoBasis(keywords, row) ==
  \E j \in 1..Len(keywords) :
     \/ Includes(row.urlDomain, keywords[j]) \/ Includes(row.ruleName, keywords[j])
     \/ Includes(row.patternName, keywords[j])

\* keywords.some((kw) => row.urlDomain.includes(kw) || row.ruleName.includes(kw) ||
\*                       row.patternName.includes(kw) || row.basis.includes(kw))
WafMatches(keywords, row) ==
  \E j \in 1..Len(keywords) :
     \/ Includes(row.urlDomain, keywords[j]) \/ Includes(row.ruleName, keywords[j])
     \/ Includes(row.patternName, keywords[j]) \/ Includes(row.basis, keywords[j])

CommaSpace == <<",", " ">>

\* variant: the values are joined without the Set
JoinDistinct_NoSet(values) == Join(NonEmpty(values), CommaSpace)

\* [...new Set(values.filter(Boolean))].join(", ")
JoinDistinct(values) == Join(Distinct(NonEmpty(values)), CommaSpace)

\* matched.map((r) => r.subject).filter(Boolean).join(" / ")
JoinSubjects(values) == Join(NonEmpty(values), <<" ", "/", " ">>)

\* `${n}건`
Geon(n) == NumToStr(n) \o <<"geon">>

Col(matched, f(_)) == MapSeq(matched, f)

MailDetail(matched) ==
  << <<"naljja", JoinDistinct(Col(matched, LAMBDA r : formatDate(r.date)))>>,
     <<"balsinja", JoinDistinct(Col(matched, LAMBDA r : r.sender))>>,
     <<"mail jemok", JoinSubjects(Col(matched, LAMBDA r : r.subject))>>,
     <<"susinja", JoinDistinct(Col(matched, LAMBDA r : r.recipient))>>,
     <<"susingeonsu", Geon(Len(matched))>>,
     <<"filteringjeongbo", JoinDistinct(Col(matched, LAMBDA r : r.filterInfo))>> >>

MailDetection(id, threat, matched) ==
  [id |-> id, threatId |-> threat.id, type |-> "mail",
   label |-> <<"[mail] ">> \o threat.title \o <<" gwallyeon mail ">>
               \o NumToStr(Len(matched)) \o <<"geon yuip">>,
   count |-> Len(matched),
   action |-> <<"yu", "ip">>,
   source |-> "spamsniper",
   detail |-> MailDetail(matched)]

NdrDetail(matched, totalCount) ==
  << <<"logeuchulcheo", <<"N", "D", "R">> >>,
     <<"NDR_RuleName", JoinDistinct(Col(matched, LAMBDA r : r.ruleName))>>,
     <<"logeu soseu", JoinDistinct(Col(matched, LAMBDA r : r.logSource))>>,
     <<"soseu IP", JoinDistinct(Col(matched, LAMBDA r : r.srcIP))>>,
     <<"daesang IP", JoinDistinct(Col(matched, LAMBDA r : r.dstIP))>>,
     <<"maechingibenteugeonsu", Geon(totalCount)>>,
     <<"jochiryang", Geon(totalCount) \o <<" tamji">> >> >>

\* variant: the aggregate starts from 1 instead of 0
NdrTotalCount_OffByOne(matched) == Len(matched) + 1

\* const totalCount = matched.length
NdrTotalCount(matched) == Len(matched)

NdrDetection(id, threat, matched) ==
  LET totalCount == NdrTotalCount(matched) IN
  [id |-> id, threatId |-> threat.id, type |-> "NDR",
   label |-> <<"[NDR] ">> \o threat.title \o <<" gwallyeon ibenteu ">>
               \o NumToStr(totalCount) \o <<"geon tamji">>,
   count |-> totalCount,
   action |-> sDetect,
   source |-> "NDR",
   detail |-> NdrDetail(matched, totalCount)]

\* variant: the aggregate counts the matched rows instead of summing their counts
SumCounts_Rows(matched) == Len(matched)

RECURSIVE SumCounts(_)
\* matched.reduce((sum, r) => sum + r.count, 0)
SumCounts(matched) ==
  IF matched = <<>> THEN 0 ELSE SumCounts(SubSeq(matched, 1, Len(matched) - 1)) + matched[Len(matched)].count

\* obj[key] = value on an insertion-ordered object
SetKey(detail, key, value) ==
  IF \E j \in 1..Len(detail) : detail[j][1] = key
  THEN [j \in 1..Len(detail) |-> IF detail[j][1] = key THEN <<key, value>> ELSE detail[j]]
  ELSE Append(detail, <<key, value>>)

\* detail[key]
Get(detail, key) == detail[CHOOSE j \in 1..Len(detail) : detail[j][1] = key][2]

\* variant: the lookup tests for a web firewall record instead of an NDR record
IsExistingNDR_WafType(d, threat) == d.threatId = threat.id /\ d.type = "webbanghwabyeok"

\* variant: the lookup takes any record of the threat, whatever its type
IsExistingNDR_AnyType(d, threat) == d.threatId = threat.id

\* the predicate of detections.find(...) in the web firewall phase
IsExistingNDR(d, threat) == d.threatId = threat.id /\ d.type = "NDR"

\* index of the first detection satisfying the predicate, 0 when there is none
FindExistingNDR(dets, threat) ==
  IF \E j \in 1..Len(dets) : IsExistingNDR(dets[j], threat)
  THEN CHOOSE j \in 1..Len(dets) :
         /\ IsExistingNDR(dets[j], threat)
         /\ \A h \in 1..(j - 1) : ~IsExistingNDR(dets[h], threat)
  ELSE 0

\* variant: the NDR amount of the composite string is computed from the count
\* before it was increased
MergeWaf_StaleAmount(d, threat, matched, totalCount) ==
  LET d3 == [d EXCEPT !.type = "NDR,webbanghwabyeok",
                      !.label = <<"[NDR, webbanghwabyeok] ">> \o threat.title
                          \o <<" gwallyeon ibenteu ">> \o NumToStr(d.count + totalCount)
                          \o <<"geon tamji/chadan">>,
                      !.count = d.count + totalCount,
                      !.action = sDetect \o <<"/">> \o sBlock]
      e1 == SetKey(d3.detail, "webbanghwabyeok_clientIP", JoinDistinct(Col(matched, LAMBDA r : r.clientIP)))
      e2 == SetKey(e1, "webbanghwabyeok_serverIP", JoinDistinct(Col(matched, LAMBDA r : r.serverIP)))
      e3 == SetKey(e2, "webbanghwabyeok_URLdomain", JoinDistinct(Col(matched, LAMBDA r : r.urlDomain)))
      e4 == SetKey(e3, "webbanghwabyeok_ruleireum", JoinDistinct(Col(matched, LAMBDA r : r.ruleName)))
      e5 == SetKey(e4, "webbanghwabyeok_tamjigeungeo", JoinDistinct(Col(matched, LAMBDA r : r.basis)))
      e6 == SetKey(e5, "jochiryang",
                   <<"NDR tamji ">> \o Geon(d.count - totalCount)
                      \o <<" / webbanghwabyeok chadan ">> \o Geon(totalCount))
  IN [d3 EXCEPT !.detail = e6]

\* variant: the NDR record is folded into a web firewall record
MergeWaf_IntoWaf(d, threat, matched, totalCount) ==
  [d EXCEPT !.type = "webbanghwabyeok",
            !.label = <<"[webbanghwabyeok] ">> \o threat.title \o <<" gwallyeon ibenteu ">>
                         \o NumToStr(d.count + totalCount) \o <<"geon chadan">>,
            !.count = d.count + totalCount,
            !.action = sBlock]

\* the mutation of existingNDR, statement by statement
MergeWaf(d, threat, matched, totalCount) ==
  LET d1 == [d EXCEPT !.type = "NDR,webbanghwabyeok"]
      d2 == [d1 EXCEPT !.label = <<"[NDR, webbanghwabyeok] ">> \o threat.title
                          \o <<" gwallyeon ibenteu ">> \o NumToStr(d1.count + totalCount)
                          \o <<"geon tamji/chadan">>]
      d3 == [d2 EXCEPT !.count = d2.count + totalCount]
      d4 == [d3 EXCEPT !.action = sDetect \o <<"/">> \o sBlock]
      e1 == SetKey(d4.detail, "webbanghwabyeok_clientIP", JoinDistinct(Col(matched, LAMBDA r : r.clientIP)))
      e2 == SetKey(e1, "webbanghwabyeok_serverIP", JoinDistinct(Col(matched, LAMBDA r : r.serverIP)))
      e3 == SetKey(e2, "webbanghwabyeok_URLdomain", JoinDistinct(Col(matched, LAMBDA r : r.urlDomain)))
      e4 == SetKey(e3, "webbanghwabyeok_ruleireum", JoinDistinct(Col(matched, LAMBDA r : r.ruleName)))
      e5 == SetKey(e4, "webbanghwabyeok_tamjigeungeo", JoinDistinct(Col(matched, LAMBDA r : r.basis)))
      e6 == SetKey(e5, "jochiryang",
                   <<"NDR tamji ">> \o Geon(d4.count - totalCount)
                      \o <<" / webbanghwabyeok chadan ">> \o Geon(totalCount))
  IN [d4 EXCEPT !.detail = e6]

WafDetail(matched, totalCount) ==
  << <<"logeuchulcheo", <<"wep", "bang", "hwa", "byeok">> >>,
     <<"maechingibenteugeonsu", Geon(totalCount)>>,
     <<"client IP", JoinDistinct(Col(matched, LAMBDA r : r.clientIP))>>,
     <<"server IP", JoinDistinct(Col(matched, LAMBDA r : r.serverIP))>>,
     <<"URL domain", JoinDistinct(Col(matched, LAMBDA r : r.urlDomain))>>,
     <<"ruleireum", JoinDistinct(Col(matched, LAMBDA r : r.ruleName))>>,
     <<"patternireum", JoinDistinct(Col(matched, LAMBDA r : r.patternName))>>,
     <<"tamjigeungeo", JoinDistinct(Col(matched, LAMBDA r : r.basis))>>,
     <<"jochi", JoinDistinct(Col(matched, LAMBDA r : r.action))>>,
     <<"jochiryang", Geon(totalCount) \o <<" chadan">> >> >>

\* the action of a standalone web firewall detection
WafAction(matched) == sBlock

WafDetection(id, threat, matched, totalCount) ==
  [id |-> id, threatId |-> threat.id, type |-> "webbanghwabyeok",
   label |-> <<"[webbanghwabyeok] ">> \o threat.title \o <<" gwallyeon ibenteu ">>
               \o NumToStr(totalCount) \o <<"geon chadan">>,
   count |-> totalCount,
   action |-> WafAction(matched),
   source |-> "webbanghwabyeok",
   detail |-> WafDetail(matched, totalCount)]

-----------------------------------------------------------------------------
(* app.js: the active dataset *)

\* The built-in sample data of data.js, one threat and one detection of it.
THREATS ==
  << [id |-> 1, title |-> <<"sample">>, source |-> <<"data.js">>, date |-> <<>>,
      body |-> <<>>, tags |-> <<>>] >>

DETECTIONS ==
  << [id |-> 1, threatId |-> 1, type |-> "mail", label |-> <<"sample">>, count |-> 1,
      action |-> <<"yu", "ip">>, source |-> "data.js", detail |-> <<>>] >>

\* An active list is an array object: obj tells the arrays apart (0 for the
\* array of data.js, n for the array built by the parse of the n-th selected
\* file) and items is its content.
SampleThreats == [obj |-> 0, items |-> THREATS]
SampleDetections == [obj |-> 0, items |-> DETECTIONS]

\* let activeThreats = THREATS; let activeDetections = DETECTIONS; no upload yet
PageLoaded ==
  /\ activeThreats = SampleThreats
  /\ activeDetections = SampleDetections
  /\ status = "none"
  /\ uploads = <<>>

\* findMatchingThreat has not been called
NoFindCall ==
  /\ fmThreats = <<>>
  /\ fmTitle = EmptyCell
  /\ fmOut = [kind |-> "pending", threat |-> <<>>]

-----------------------------------------------------------------------------
(* parseExcel: the state machine *)

\* where the parse continues after the block of one log sheet
AfterSpam == "ndr"
AfterNdr == "waf"
AfterWaf == "resolve"

Init ==
  /\ wb \in Workbooks
  /\ pc = "reading"
  /\ k = 1
  /\ ti = 1
  /\ threats = <<>>
  /\ detections = <<>>
  /\ threatId = 1
  /\ detectionId = 1
  /\ spamRows = <<>>
  /\ ndrRows = <<>>
  /\ wafRows = <<>>
  /\ kwTitle = <<>>
  /\ kwOut = <<>>
  /\ PageLoaded
  /\ NoFindCall

\* reader.onerror = reject
ReaderError ==
  /\ pc = "reading"
  /\ wb.kind = "unreadable"
  /\ pc' = "rejected"
  /\ UNCHANGED <<wb, k, ti, threats, detections, threatId, detectionId,
                 spamRows, ndrRows, wafRows, kwTitle, kwOut, app, fm>>

\* reader.onload: XLSX.read throws, the catch block rejects
ReadThrows ==
  /\ pc = "reading"
  /\ wb.kind = "corrupt"
  /\ pc' = "rejected"
  /\ UNCHANGED <<wb, k, ti, threats, detections, threatId, detectionId,
                 spamRows, ndrRows, wafRows, kwTitle, kwOut, app, fm>>

\* reader.onload: XLSX.read succeeds, the result lists and counters are set up
ReadWorkbook ==
  /\ pc = "reading"
  /\ wb.kind = "ok"
  /\ threats' = <<>>
  /\ detections' = <<>>
  /\ threatId' = 1
  /\ detectionId' = 1
  /\ k' = 1
  /\ pc' = IF Len(wb.SheetNames) = 0 THEN "spam" ELSE "articles"
  /\ UNCHANGED <<wb, ti, spamRows, ndrRows, wafRows, kwTitle, kwOut, app, fm>>

\* one iteration of wb.SheetNames.forEach
ArticleSheet ==
  /\ pc = "articles"
  /\ k <= Len(wb.SheetNames)
  /\ LET name == wb.SheetNames[k]
         a1 == JsString(wb.Sheets[name].A1)
     IN IF ~StartsWith(name, ArticlePrefix) \/ a1 = <<>>
        THEN UNCHANGED <<threats, threatId>>
        ELSE /\ threats' = Append(threats, ThreatOf(threatId, a1))
             /\ threatId' = threatId + 1
  /\ k' = k + 1
  /\ pc' = IF k = Len(wb.SheetNames) THEN "spam" ELSE "articles"
  /\ UNCHANGED <<wb, ti, detections, detectionId, spamRows, ndrRows, wafRows, kwTitle, kwOut, app, fm>>

\* if (wb.Sheets["스팸스나이퍼"]) { rows -> spamRows
SpamIngest ==
  /\ pc = "spam"
  /\ IF HasSheet(SpamSheetName)
     THEN /\ spamRows' = IngestSpam(wb.Sheets[SpamSheetName].rows)
          /\ pc' = IF threats = <<>> THEN AfterSpam ELSE "spamThreats"
     ELSE /\ pc' = AfterSpam
          /\ UNCHANGED spamRows
  /\ ti' = 1
  /\ UNCHANGED <<wb, k, threats, detections, threatId, detectionId, ndrRows, wafRows,
                 kwTitle, kwOut, app, fm>>

\* one iteration of threats.forEach in the mail block
SpamThreat ==
  /\ pc = "spamThreats"
  /\ ti <= Len(threats)
  /\ LET threat == threats[ti]
         keywords == extractKeywords(threat.title)
         matched == SelectSeq(spamRows, LAMBDA row : MailMatches(keywords, row))
     IN IF Len(matched) = 0
        THEN UNCHANGED <<detections, detectionId>>
        ELSE /\ detections' = Append(detections, MailDetection(detectionId, threat, matched))
             /\ detectionId' = detectionId + 1
  /\ ti' = ti + 1
  /\ pc' = IF ti = Len(threats) THEN AfterSpam ELSE "spamThreats"
  /\ UNCHANGED <<wb, k, threats, threatId, spamRows, ndrRows, wafRows, kwTitle, kwOut, app, fm>>

\* if (wb.Sheets["NDR로그"]) { rows -> ndrRows
NdrIngest ==
  /\ pc = "ndr"
  /\ IF HasSheet(NdrSheetName)
     THEN /\ ndrRows' = IngestNdr(wb.Sheets[NdrSheetName].rows)
          /\ pc' = IF threats = <<>> THEN AfterNdr ELSE "ndrThreats"
     ELSE /\ pc' = AfterNdr
          /\ UNCHANGED ndrRows
  /\ ti' = 1
  /\ UNCHANGED <<wb, k, threats, detections, threatId, detectionId, spamRows, wafRows,
                 kwTitle, kwOut, app, fm>>

\* one iteration of threats.forEach in the NDR block
NdrThreat ==
  /\ pc = "ndrThreats"
  /\ ti <= Len(threats)
  /\ LET threat == threats[ti]
         keywords == extractKeywords(threat.title)
         matched == SelectSeq(ndrRows, LAMBDA row : NdrMatches(keywords, row))
     IN IF Len(matched) = 0
        THEN UNCHANGED <<detections, detectionId>>
        ELSE /\ detections' = Append(detections, NdrDetection(detectionId, threat, matched))
             /\ detectionId' = detectionId + 1
  /\ ti' = ti + 1
  /\ pc' = IF ti = Len(threats) THEN AfterNdr ELSE "ndrThreats"
  /\ UNCHANGED <<wb, k, threats, threatId, spamRows, ndrRows, wafRows, kwTitle, kwOut, app, fm>>

\* if (wb.Sheets["웹방화벽로그"]) { rows -> wafRows
WafIngest ==
  /\ pc = "waf"
  /\ IF HasSheet(WafSheetName)
     THEN /\ wafRows' = IngestWaf(wb.Sheets[WafSheetName].rows)
          /\ pc' = IF threats = <<>> THEN AfterWaf ELSE "wafThreats"
     ELSE /\ pc' = AfterWaf
          /\ UNCHANGED wafRows
  /\ ti' = 1
  /\ UNCHANGED <<wb, k, threats, detections, threatId, detectionId, spamRows, ndrRows,
                 kwTitle, kwOut, app, fm>>

\* one iteration of threats.forEach in the web firewall block
WafThreat ==
  /\ pc = "wafThreats"
  /\ ti <= Len(threats)
  /\ LET threat == threats[ti]
         keywords == extractKeywords(threat.title)
         matched == SelectSeq(wafRows, LAMBDA row : WafMatches(keywords, row))
         totalCount == SumCounts(matched)
         existingNDR == FindExistingNDR(detections, threat)
     IN IF Len(matched) = 0
        THEN UNCHANGED <<detections, detectionId>>
        ELSE IF existingNDR # 0
        THEN /\ detections' = [detections EXCEPT ![existingNDR] =
                                  MergeWaf(detections[existingNDR], threat, matched, totalCount)]
             /\ UNCHANGED detectionId
        ELSE /\ detections' = Append(detections,
                                     WafDetection(detectionId, threat, matched, totalCount))
             /\ detectionId' = detectionId + 1
  /\ ti' = ti + 1
  /\ pc' = IF ti = Len(threats) THEN AfterWaf ELSE "wafThreats"
  /\ UNCHANGED <<wb, k, threats, threatId, spamRows, ndrRows, wafRows, kwTitle, kwOut, app, fm>>

\* resolve({ threats, detections })
Resolve ==
  /\ pc = "resolve"
  /\ pc' = "resolved"
  /\ UNCHANGED <<wb, k, ti, threats, detections, threatId, detectionId,
                 spamRows, ndrRows, wafRows, kwTitle, kwOut, app, fm>>

Next ==
  \/ ReaderError
  \/ ReadThrows
  \/ ReadWorkbook
  \/ ArticleSheet
  \/ SpamIngest
  \/ SpamThreat
  \/ NdrIngest
  \/ NdrThreat
  \/ WafIngest
  \/ WafThreat
  \/ Resolve

Spec == Init /\ [][Next]_vars

-----------------------------------------------------------------------------
(* extractKeywords on its own *)

\* code units of the titles: two letters, two stopword syllables that also
\* spell the stopword "관련", white space and two punctuation separators;
\* the three titles of the input family bring the other code units
KwAlphabet == {"A", "b", "gwan", "ryeon", " ", "-", ","}

\* two tokens around each code unit of the split pattern's character class
KwSeparatorTitles ==
  {<<"A", "A", c, "b", "b">> :
      c \in {" ", "\t", "\n", ",", "MIDDOT", "-", "/", "[", "]", "(", ")"}}

KwInit ==
  /\ kwTitle \in SeqsUpTo(KwAlphabet, MaxTitleLen) \cup KwSeparatorTitles
                   \cup {TitleRansom, TitleNdr, TitleStop}
  /\ kwOut = <<"pending">>
  /\ wb = UnreadableWb
  /\ pc = "idle"
  /\ k = 1
  /\ ti = 1
  /\ threats = <<>>
  /\ detections = <<>>
  /\ threatId = 1
  /\ detectionId = 1
  /\ spamRows = <<>>
  /\ ndrRows = <<>>
  /\ wafRows = <<>>
  /\ PageLoaded
  /\ NoFindCall

\* a call of extractKeywords(kwTitle)
ExtractKeywordsCall ==
  /\ pc = "idle"
  /\ pc' = "returned"
  /\ kwOut' = extractKeywords(kwTitle)
  /\ UNCHANGED <<wb, k, ti, threats, detections, threatId, detectionId,
                 spamRows, ndrRows, wafRows, kwTitle, app, fm>>

KwNext == ExtractKeywordsCall

KwSpec == KwInit /\ [][KwNext]_vars

-----------------------------------------------------------------------------
(* app.js: setupExcelUpload *)

\* how many files are selected in one run
MaxUploads == 2

\* a change event whose file list is empty
NoFile == [kind |-> "none", SheetNames |-> <<>>, Sheets |-> <<>>]

\* one article with a matching row in each log sheet
FullWb ==
  MkWb(FALSE, <<StrCell(TitleRansom)>>, Sheet(<<MailHeader, MailRansom>>),
       Sheet(<<NdrHeader, NdrRansom>>), Sheet(<<WafHeader, WafAttack>>))

\* one article and no log sheet
ArticlesOnlyWb == MkWb(FALSE, <<StrCell(TitleRansom)>>, NoSheet, NoSheet, NoSheet)

\* one article whose title has no keyword, with all log sheets
NoMatchWb ==
  MkWb(FALSE, <<StrCell(TitleStop)>>, Sheet(<<MailHeader, MailRansom>>),
       Sheet(<<NdrHeader, NdrRansom>>), Sheet(<<WafHeader, WafAttack>>))

\* a single sheet of an unrecognised name
NoRecognisedWb == MkWb(TRUE, <<>>, NoSheet, NoSheet, NoSheet)

\* the files a user selects
UploadFiles == {FullWb, ArticlesOnlyWb, NoMatchWb, NoRecognisedWb, CorruptWb, UnreadableWb}

\* the invocation of the change handler whose parse is running, 0 when none is
Running ==
  IF \E u \in 1..Len(uploads) : uploads[u].at = "parsing"
  THEN CHOOSE u \in 1..Len(uploads) : uploads[u].at = "parsing"
  ELSE 0

\* variant: the empty result is not told apart
BothEmpty_Never(ts, ds) == FALSE

\* threats.length === 0 && detections.length === 0
BothEmpty(ts, ds) == Len(ts) = 0 /\ Len(ds) = 0

UploadInit ==
  /\ PageLoaded
  /\ NoFindCall
  /\ wb = UnreadableWb
  /\ pc = "idle"
  /\ k = 1
  /\ ti = 1
  /\ threats = <<>>
  /\ detections = <<>>
  /\ threatId = 1
  /\ detectionId = 1
  /\ spamRows = <<>>
  /\ ndrRows = <<>>
  /\ wafRows = <<>>
  /\ kwTitle = <<>>
  /\ kwOut = <<>>

\* the change handler up to its await: the file is taken, the status shows
\* loading, parseExcel creates a reader and starts it
SelectFile ==
  /\ pc = "idle"
  /\ Len(uploads) < MaxUploads
  /\ \E file \in UploadFiles \cup {NoFile} :
        IF file = NoFile
        THEN UNCHANGED <<status, uploads>>
        ELSE /\ status' = "loading"
             /\ uploads' = Append(uploads, [file |-> file, at |-> "reading"])
  /\ UNCHANGED <<wb, pc, k, ti, threats, detections, threatId, detectionId,
                 spamRows, ndrRows, wafRows, kwTitle, kwOut,
                 activeThreats, activeDetections, fm>>

\* the reader of one pending upload finishes: its load or error event is
\* dispatched while no other script runs
ReaderCompletes ==
  /\ pc = "idle"
  /\ \E u \in 1..Len(uploads) :
        /\ uploads[u].at = "reading"
        /\ uploads' = [uploads EXCEPT ![u].at = "parsing"]
        /\ wb' = uploads[u].file
  /\ pc' = "reading"
  /\ UNCHANGED <<k, ti, threats, detections, threatId, detectionId,
                 spamRows, ndrRows, wafRows, kwTitle, kwOut,
                 activeThreats, activeDetections, status, fm>>

\* the handler after await parseExcel(file) resolved
UploadResolved ==
  /\ pc = "resolved"
  /\ Running # 0
  /\ IF BothEmpty(threats, detections)
     THEN /\ status' = "error"
          /\ UNCHANGED <<activeThreats, activeDetections>>
     ELSE /\ activeThreats' = IF Len(threats) > 0
                               THEN [obj |-> Running, items |-> threats]
                               ELSE SampleThreats
          /\ activeDetections' = IF Len(detections) > 0
                                  THEN [obj |-> Running, items |-> detections]
                                  ELSE SampleDetections
          /\ status' = "success"
  /\ uploads' = [uploads EXCEPT ![Running].at = "done"]
  /\ pc' = "idle"
  /\ wb' = UnreadableWb
  /\ k' = 1
  /\ ti' = 1
  /\ threats' = <<>>
  /\ detections' = <<>>
  /\ threatId' = 1
  /\ detectionId' = 1
  /\ spamRows' = <<>>
  /\ ndrRows' = <<>>
  /\ wafRows' = <<>>
  /\ UNCHANGED <<kwTitle, kwOut, fm>>

\* the handler's catch block after await parseExcel(file) rejected
UploadRejected ==
  /\ pc = "rejected"
  /\ Running # 0
  /\ status' = "error"
  /\ uploads' = [uploads EXCEPT ![Running].at = "done"]
  /\ pc' = "idle"
  /\ wb' = UnreadableWb
  /\ UNCHANGED <<k, ti, threats, detections, threatId, detectionId,
                 spamRows, ndrRows, wafRows, kwTitle, kwOut,
                 activeThreats, activeDetections, fm>>

UploadNext ==
  \/ SelectFile
  \/ ReaderCompletes
  \/ ReaderError
  \/ ReadThrows
  \/ ReadWorkbook
  \/ ArticleSheet
  \/ SpamIngest
  \/ SpamThreat
  \/ NdrIngest
  \/ NdrThreat
  \/ WafIngest
  \/ WafThreat
  \/ Resolve
  \/ UploadResolved
  \/ UploadRejected

UploadSpec == UploadInit /\ [][UploadNext]_vars

-----------------------------------------------------------------------------
(* findMatchingThreat on its own *)

\* how many threats the list of a call holds
MaxFmThreats == 3

\* the letters that toLowerCase changes, and what it makes of them
UpperLetters == <<"A", "C", "D", "E", "K", "M", "N", "O", "R", "S", "T", "W">>
LowerLetters == <<"a", "c", "d", "e", "k", "m", "n", "o", "r", "s", "t", "w">>

\* String.prototype.toLowerCase
toLowerCase(s) ==
  [i \in 1..Len(s) |->
     IF \E u \in 1..Len(UpperLetters) : UpperLetters[u] = s[i]
     THEN LowerLetters[CHOOSE u \in 1..Len(UpperLetters) : UpperLetters[u] = s[i]]
     ELSE s[i]]

\* .replace(/\s/g, "").toLowerCase()
Normalize(s) == toLowerCase(SelectSeq(s, LAMBDA c : ~IsSpace(c)))

\* .slice(0, 8)
PrefixLen == 8
Slice8(s) == IF Len(s) <= PrefixLen THEN s ELSE SubSeq(s, 1, PrefixLen)

\* the predicates of the two threats.find calls
TitleContains(t, query) == Includes(Normalize(t.title), query)
TitlePrefixIn(t, query) == Includes(query, Slice8(Normalize(t.title)))

\* index of the first threat whose title contains the query, 0 when there is none
FindByTitle(ts, query) ==
  IF \E j \in 1..Len(ts) : TitleContains(ts[j], query)
  THEN CHOOSE j \in 1..Len(ts) :
         TitleContains(ts[j], query) /\ \A h \in 1..(j - 1) : ~TitleContains(ts[h], query)
  ELSE 0

\* index of the first threat whose title prefix is in the query, 0 when there is none
FindByPrefix(ts, query) ==
  IF \E j \in 1..Len(ts) : TitlePrefixIn(ts[j], query)
  THEN CHOOSE j \in 1..Len(ts) :
         TitlePrefixIn(ts[j], query) /\ \A h \in 1..(j - 1) : ~TitlePrefixIn(ts[h], query)
  ELSE 0

\* what a call returns: null, undefined or a threat of the list
NoThreat == [id |-> 0, title |-> <<>>, source |-> <<>>, date |-> <<>>, body |-> <<>>, tags |-> <<>>]
Null == [kind |-> "null", threat |-> NoThreat]
Undefined == [kind |-> "undefined", threat |-> NoThreat]
Found(t) == [kind |-> "threat", threat |-> t]

\* variant: one scan that takes the first threat passing either test
findMatchingThreat_OneScan(ts, articleTitle) ==
  IF ~Truthy(articleTitle) THEN Null
  ELSE LET query == Normalize(JsString(articleTitle))
           hits == {j \in 1..Len(ts) : TitleContains(ts[j], query) \/ TitlePrefixIn(ts[j], query)}
       IN IF hits = {} THEN Undefined
          ELSE Found(ts[CHOOSE j \in hits : \A h \in hits : j <= h])

findMatchingThreat(ts, articleTitle) ==
  IF ~Truthy(articleTitle) THEN Null
  ELSE LET query == Normalize(JsString(articleTitle))
           first == FindByTitle(ts, query)
           second == FindByPrefix(ts, query)
       IN IF first # 0 THEN Found(ts[first])
          ELSE IF second # 0 THEN Found(ts[second])
          ELSE Undefined

\* A1 texts of the threats of a call: "Ransom Ware", "ransomware attack",
\* "DDoS", one with an empty title line, and "랜섬웨어 공격 증가"
FmA1Texts ==
  { <<"R", "a", "n", "s", "o", "m", " ", "W", "a", "r", "e">>,
    <<"r", "a", "n", "s", "o", "m", "w", "a", "r", "e", " ", "a", "t", "t", "a", "c", "k">>,
    <<"D", "D", "o", "S">>,
    <<" ", "\n">>,
    TitleRansom }

\* the article titles asked for: none, blank, "ransomware", "RANSOMWARE
\* ATTACK", "x ransomwa x", "xransomwx", "my DDoS story", "공격", "zz"
FmQueries ==
  { EmptyCell,
    StrCell(<<" ">>),
    StrCell(<<"r", "a", "n", "s", "o", "m", "w", "a", "r", "e">>),
    StrCell(<<"R", "A", "N", "S", "O", "M", "W", "A", "R", "E", " ", "A", "T", "T", "A", "C", "K">>),
    StrCell(<<"x", " ", "r", "a", "n", "s", "o", "m", "w", "a", "\t", "x">>),
    StrCell(<<"x", "r", "a", "n", "s", "o", "m", "w", "x">>),
    StrCell(<<"m", "y", " ", "D", "D", "o", "S", " ", "s", "t", "o", "r", "y">>),
    StrCell(sAttack),
    StrCell(<<"z", "z">>) }

\* the threat lists of a call, with ids in list order as parseExcel gives them
FmThreatLists ==
  {[j \in 1..Len(q) |-> ThreatOf(j, q[j])] : q \in SeqsUpTo(FmA1Texts, MaxFmThreats)}

FmInit ==
  /\ fmThreats \in FmThreatLists
  /\ fmTitle \in FmQueries
  /\ fmOut = [kind |-> "pending", threat |-> <<>>]
  /\ PageLoaded
  /\ wb = UnreadableWb
  /\ pc = "idle"
  /\ k = 1
  /\ ti = 1
  /\ threats = <<>>
  /\ detections = <<>>
  /\ threatId = 1
  /\ detectionId = 1
  /\ spamRows = <<>>
  /\ ndrRows = <<>>
  /\ wafRows = <<>>
  /\ kwTitle = <<>>
  /\ kwOut = <<>>

\* a call of findMatchingThreat(fmThreats, fmTitle)
FindMatchingThreatCall ==
  /\ pc = "idle"
  /\ pc' = "returned"
  /\ fmOut' = findMatchingThreat(fmThreats, fmTitle)
  /\ UNCHANGED <<wb, k, ti, threats, detections, threatId, detectionId,
                 spamRows, ndrRows, wafRows, kwTitle, kwOut, app, fmThreats, fmTitle>>

FmNext == FindMatchingThreatCall

FmSpec == FmInit /\ [][FmNext]_vars

-----------------------------------------------------------------------------
(* Properties *)

TypeMail == "mail"
TypeNDR == "NDR"
TypeWAF == "webbanghwabyeok"
TypeNDRWAF == "NDR,webbanghwabyeok"

\* positions in a detection list of the records of one threat with one of the types
DetIdxIn(dets, tid, types) ==
  {j \in 1..Len(dets) : dets[j].threatId = tid /\ dets[j].type \in types}

DetIdx(tid, types) == DetIdxIn(detections, tid, types)

Resolved == pc = "resolved"

\* the ingested rows of each kind that match a threat
MailMatched(threat) ==
  SelectSeq(spamRows, LAMBDA row : MailMatches(extractKeywords(threat.title), row))
NdrMatched(threat) ==
  SelectSeq(ndrRows, LAMBDA row : NdrMatches(extractKeywords(threat.title), row))
WafMatched(threat) ==
  SelectSeq(wafRows, LAMBDA row : WafMatches(extractKeywords(threat.title), row))

RECURSIVE SumOf(_)
\* the sum of a sequence of integers
SumOf(ns) == IF ns = <<>> THEN 0 ELSE Head(ns) + SumOf(Tail(ns))

\* C1: in every detection list the parse builds, and so in the list it
\* returns, each threat id has at most one detection of type Mail and at most
\* one detection of type NDR, WAF or NDR+WAF.
C1_AtMostOnePerThreat ==
  \A j \in 1..Len(threats) :
     /\ Cardinality(DetIdx(threats[j].id, {TypeMail})) <= 1
     /\ Cardinality(DetIdx(threats[j].id, {TypeNDR, TypeWAF, TypeNDRWAF})) <= 1

\* a returned list in which one of two threats has a Mail record and a merged record
C1_Witness ==
  /\ Resolved
  /\ Len(threats) >= 2
  /\ \E j \in 1..Len(threats) :
        /\ Cardinality(DetIdx(threats[j].id, {TypeMail})) = 1
        /\ Cardinality(DetIdx(threats[j].id, {TypeNDRWAF})) = 1

\* C2: when the article being processed in the web firewall phase has a
\* matching NDR row and a matching web firewall row, the step leaves exactly
\* one NDR+WAF detection for it, whose count is the count of its NDR detection
\* before the step plus the sum of the matched web firewall rows' counts, and
\* no detection of type WAF for it.
C2_MergeYieldsOneCombined ==
  [][ ( /\ pc = "wafThreats"
        /\ ti <= Len(threats)
        /\ Len(NdrMatched(threats[ti])) >= 1
        /\ Len(WafMatched(threats[ti])) >= 1 )
      => LET tid == threats[ti].id
             before == DetIdx(tid, {TypeNDR})
             after == DetIdxIn(detections', tid, {TypeNDRWAF})
             wafCount == SumOf([j \in 1..Len(WafMatched(threats[ti])) |->
                                   WafMatched(threats[ti])[j].count])
         IN /\ Cardinality(before) = 1
            /\ Cardinality(after) = 1
            /\ \A a \in after : \A b \in before :
                  detections'[a].count = detections[b].count + wafCount
            /\ DetIdxIn(detections', tid, {TypeWAF}) = {}
            /\ DetIdxIn(detections', tid, {TypeNDR}) = {} ]_vars

\* a returned list with a merged record whose web firewall part is more than one row's worth
C2_Witness ==
  /\ Resolved
  /\ \E j \in 1..Len(threats) :
        /\ Len(NdrMatched(threats[j])) >= 1
        /\ Len(WafMatched(threats[j])) >= 1
        /\ \E d \in DetIdx(threats[j].id, {TypeNDRWAF}) :
              detections[d].count > Len(NdrMatched(threats[j])) + Len(WafMatched(threats[j]))

\* the scenario of C3: one threat titled "랜섬웨어 공격 증가", no mail row, one
\* NDR row whose rule name contains "랜섬웨어" and whose event count column is
\* 4, one web firewall row whose URL domain contains "공격" with count 3
C3_Scenario ==
  /\ Resolved
  /\ Len(threats) = 1
  /\ threats[1].title = TitleRansom
  /\ spamRows = <<>>
  /\ Len(ndrRows) = 1
  /\ Includes(ndrRows[1].ruleName, sRansomware)
  /\ wb.Sheets[NdrSheetName].rows = <<NdrHeader, NdrRansom>>
  /\ NdrRansom.colJ = NumCell(4)
  /\ Len(wafRows) = 1
  /\ Includes(wafRows[1].urlDomain, sAttack)
  /\ wafRows[1].count = 3

C4_NoKeywordsNoDetection ==
  \A j \in 1..Len(threats) :
     extractKeywords(threats[j].title) = <<>>
       => DetIdx(threats[j].id, {TypeMail, TypeNDR, TypeWAF, TypeNDRWAF}) = {}

\* a finished parse with a stopword-only title and an empty title, a mail row
\* whose subject is the raw stopword title, and a detection for another threat
C4_Witness ==
  /\ Resolved
  /\ \E j \in 1..Len(threats) : threats[j].title = TitleStop
  /\ \E j \in 1..Len(threats) : threats[j].title = <<>>
  /\ \E r \in 1..Len(spamRows) : spamRows[r].subject = TitleStop

\* white space and the punctuation of the split pattern, written out
C5_Separators == {" ", "\t", "\n", ",", "MIDDOT", "-", "/", "[", "]", "(", ")"}

\* the positions where a maximal run of non-separator code units starts
C5_TokenStarts(t) ==
  {i \in 1..Len(t) : t[i] \notin C5_Separators /\ (i = 1 \/ t[i - 1] \in C5_Separators)}

\* the maximal run of non-separator code units that starts at i
C5_TokenAt(t, i) ==
  SubSeq(t, i, CHOOSE e \in i..Len(t) :
                  /\ \A h \in i..e : t[h] \notin C5_Separators
                  /\ (e = Len(t) \/ t[e + 1] \in C5_Separators))

C5_Qualifies(w) == Len(w) >= 2 /\ w \notin stopWords

\* C5: extractKeywords(title) returns exactly the tokens of the title (the
\* maximal runs between white space and punctuation separators) that have
\* length >= 2 and are not stopwords, once per occurrence; for
\* "긴급 NDR 탐지 및 대응" that is the set {"긴급", "NDR", "탐지", "대응"}.
C5_KeywordsAreQualifyingTokens ==
  pc = "returned" =>
    LET starts == {i \in C5_TokenStarts(kwTitle) : C5_Qualifies(C5_TokenAt(kwTitle, i))}
        out == {kwOut[j] : j \in 1..Len(kwOut)}
    IN /\ out = {C5_TokenAt(kwTitle, i) : i \in starts}
       /\ Len(kwOut) = Cardinality(starts)
       /\ \A j \in 1..Len(kwOut) : Len(kwOut[j]) >= 2 /\ kwOut[j] \notin stopWords
       /\ (kwTitle = TitleNdr => out = {sUrgent, sNDR, sDetect, sResponse})

\* the call on "긴급 NDR 탐지 및 대응" has returned its four keywords
C5_Witness ==
  /\ pc = "returned"
  /\ kwTitle = TitleNdr
  /\ {kwOut[j] : j \in 1..Len(kwOut)} = {sUrgent, sNDR, sDetect, sResponse}

\* s contains w as a contiguous run of equal code units (letter case included)
C6_Contains(s, w) ==
  \E i \in 0..(Len(s) - Len(w)) : \A q \in 1..Len(w) : s[i + q] = w[q]

C6_Hit(threat, fields) ==
  \E j \in 1..Len(extractKeywords(threat.title)) :
     \E f \in fields : C6_Contains(f, extractKeywords(threat.title)[j])

\* the ingested rows of each kind that a threat's keywords hit in the listed fields
C6_MailHits(threat) ==
  {r \in 1..Len(spamRows) : C6_Hit(threat, {spamRows[r].subject, spamRows[r].sender})}
C6_NdrHits(threat) ==
  {r \in 1..Len(ndrRows) : C6_Hit(threat, {ndrRows[r].ruleName, ndrRows[r].logSource})}
C6_WafHits(threat) ==
  {r \in 1..Len(wafRows) :
      C6_Hit(threat, {wafRows[r].urlDomain, wafRows[r].ruleName,
                      wafRows[r].patternName, wafRows[r].basis})}

RECURSIVE C6_WafSum(_)
C6_WafSum(R) ==
  IF R = {} THEN 0 ELSE LET r == CHOOSE x \in R : TRUE IN wafRows[r].count + C6_WafSum(R \ {r})

\* C6: in the returned list the rows aggregated for a threat are exactly the
\* ingested rows in which some keyword of its title is a case-sensitive
\* substring of a listed field (Mail: subject, sender; NDR: ruleName,
\* logSource; WAF: urlDomain, ruleName, patternName, basis): the Mail and NDR
\* records count exactly these rows, the web firewall part sums exactly their
\* counts, and a threat without such a row has no record of that kind.
C6_MatchIffKeywordInListedField ==
  Resolved =>
    \A j \in 1..Len(threats) :
       LET T == threats[j]
           nMail == Cardinality(C6_MailHits(T))
           nNdr == Cardinality(C6_NdrHits(T))
           hWaf == C6_WafHits(T)
       IN /\ (nMail = 0 => DetIdx(T.id, {TypeMail}) = {})
          /\ (nMail > 0 => \E d \in DetIdx(T.id, {TypeMail}) : detections[d].count = nMail)
          /\ (nNdr = 0 => DetIdx(T.id, {TypeNDR, TypeNDRWAF}) = {})
          /\ (nNdr > 0 => \E d \in DetIdx(T.id, {TypeNDR, TypeNDRWAF}) :
                             Get(detections[d].detail, "maechingibenteugeonsu") = Geon(nNdr))
          /\ (hWaf = {} => DetIdx(T.id, {TypeWAF, TypeNDRWAF}) = {})
          /\ (hWaf # {} /\ nNdr = 0 =>
                \E d \in DetIdx(T.id, {TypeWAF}) : detections[d].count = C6_WafSum(hWaf))
          /\ (hWaf # {} /\ nNdr > 0 =>
                \E d \in DetIdx(T.id, {TypeNDRWAF}) :
                   detections[d].count = nNdr + C6_WafSum(hWaf))

\* a returned list where a mail row matched by its subject alone gave a Mail
\* record, and a row holding another threat's keyword in the recipient only
\* gave that threat none
C6_Witness ==
  /\ Resolved
  /\ \E j \in 1..Len(threats) : \E r \in 1..Len(spamRows) :
        /\ C6_Hit(threats[j], {spamRows[r].subject})
        /\ ~C6_Hit(threats[j], {spamRows[r].sender})
        /\ DetIdx(threats[j].id, {TypeMail}) # {}
  /\ \E j \in 1..Len(threats) : \E r \in 1..Len(spamRows) :
        /\ C6_Hit(threats[j], {spamRows[r].recipient})
        /\ C6_MailHits(threats[j]) = {}
        /\ DetIdx(threats[j].id, {TypeMail}) = {}

\* the raw rows of the web firewall sheet that were ingested; wafRows[r] comes from row r
C7_RawKept ==
  IF HasSheet(WafSheetName) THEN SelectSeq(DataRows(wb.Sheets[WafSheetName].rows), WafKept)
  ELSE <<>>

\* the count value of a row: the number in its count cell; 1 when the cell is
\* missing or holds no number
C7_CountValue(cell) ==
  CASE cell.t = "num" -> cell.n
    [] cell.t = "date" -> 1
    [] cell.t = "str" -> IF Trim(cell.s) = <<>> \/ ToNumber(cell).nan THEN 1 ELSE ToNumber(cell).v

RECURSIVE C7_Sum(_)
C7_Sum(R) ==
  IF R = {} THEN 0
  ELSE LET r == CHOOSE x \in R : TRUE IN C7_CountValue(C7_RawKept[r].countRaw) + C7_Sum(R \ {r})

\* C7 as stated: the count of a standalone web firewall detection is the sum
\* of the count values of its matched rows, a missing or non-numeric count
\* cell counting as 1.
C7_Original_SumOfCountValues ==
  Resolved =>
    \A j \in 1..Len(threats) : \A d \in DetIdx(threats[j].id, {TypeWAF}) :
       detections[d].count = C7_Sum(C6_WafHits(threats[j]))

\* C8 as stated: no detection has a negative count.
C8_Original_CountNeverNegative ==
  \A d \in 1..Len(detections) : detections[d].count >= 0

\* the values that are not empty and differ from every earlier value, in order
C9_FirstSeen(vals) ==
  LET idx == SelectSeq([j \in 1..Len(vals) |-> j],
                       LAMBDA j : vals[j] # <<>> /\ \A h \in 1..(j - 1) : vals[h] # vals[j])
  IN [i \in 1..Len(idx) |-> vals[idx[i]]]

\* distinct non-empty values in first-seen order, joined with ", "
C9_Joined(vals) == Join(C9_FirstSeen(vals), <<",", " ">>)

\* every non-empty value in row order, duplicates kept, joined with " / "
C9_AllJoined(vals) ==
  Join(SelectSeq(vals, LAMBDA v : v # <<>>), <<" ", "/", " ">>)

\* the row-derived detail fields of a Mail record other than the subject
C9_MailFields(d, m) ==
  /\ Get(d.detail, "naljja") = C9_Joined([j \in 1..Len(m) |-> formatDate(m[j].date)])
  /\ Get(d.detail, "balsinja") = C9_Joined([j \in 1..Len(m) |-> m[j].sender])
  /\ Get(d.detail, "susinja") = C9_Joined([j \in 1..Len(m) |-> m[j].recipient])
  /\ Get(d.detail, "filteringjeongbo") = C9_Joined([j \in 1..Len(m) |-> m[j].filterInfo])

\* the row-derived detail fields written by the NDR phase
C9_NdrFields(d, m) ==
  /\ Get(d.detail, "NDR_RuleName") = C9_Joined([j \in 1..Len(m) |-> m[j].ruleName])
  /\ Get(d.detail, "logeu soseu") = C9_Joined([j \in 1..Len(m) |-> m[j].logSource])
  /\ Get(d.detail, "soseu IP") = C9_Joined([j \in 1..Len(m) |-> m[j].srcIP])
  /\ Get(d.detail, "daesang IP") = C9_Joined([j \in 1..Len(m) |-> m[j].dstIP])

\* the row-derived detail fields of a standalone web firewall record
C9_WafFields(d, m) ==
  /\ Get(d.detail, "client IP") = C9_Joined([j \in 1..Len(m) |-> m[j].clientIP])
  /\ Get(d.detail, "server IP") = C9_Joined([j \in 1..Len(m) |-> m[j].serverIP])
  /\ Get(d.detail, "URL domain") = C9_Joined([j \in 1..Len(m) |-> m[j].urlDomain])
  /\ Get(d.detail, "ruleireum") = C9_Joined([j \in 1..Len(m) |-> m[j].ruleName])
  /\ Get(d.detail, "patternireum") = C9_Joined([j \in 1..Len(m) |-> m[j].patternName])
  /\ Get(d.detail, "tamjigeungeo") = C9_Joined([j \in 1..Len(m) |-> m[j].basis])
  /\ Get(d.detail, "jochi") = C9_Joined([j \in 1..Len(m) |-> m[j].action])

\* the web firewall keys added to an NDR record by the merge
C9_MergedFields(d, m) ==
  /\ Get(d.detail, "webbanghwabyeok_clientIP") = C9_Joined([j \in 1..Len(m) |-> m[j].clientIP])
  /\ Get(d.detail, "webbanghwabyeok_serverIP") = C9_Joined([j \in 1..Len(m) |-> m[j].serverIP])
  /\ Get(d.detail, "webbanghwabyeok_URLdomain") = C9_Joined([j \in 1..Len(m) |-> m[j].urlDomain])
  /\ Get(d.detail, "webbanghwabyeok_ruleireum") = C9_Joined([j \in 1..Len(m) |-> m[j].ruleName])
  /\ Get(d.detail, "webbanghwabyeok_tamjigeungeo") = C9_Joined([j \in 1..Len(m) |-> m[j].basis])

\* every row-derived detail field except the mail subject is deduplicated and joined with ", "
C9_FieldsButSubject ==
  \A j \in 1..Len(threats) :
     LET T == threats[j] IN
     /\ \A d \in DetIdx(T.id, {TypeMail}) : C9_MailFields(detections[d], MailMatched(T))
     /\ \A d \in DetIdx(T.id, {TypeNDR, TypeNDRWAF}) : C9_NdrFields(detections[d], NdrMatched(T))
     /\ \A d \in DetIdx(T.id, {TypeWAF}) : C9_WafFields(detections[d], WafMatched(T))
     /\ \A d \in DetIdx(T.id, {TypeNDRWAF}) : C9_MergedFields(detections[d], WafMatched(T))

\* C9 as stated: every row-derived detail field, the mail subject "메일 제목"
\* included, holds the distinct non-empty values of the field over the matched
\* rows in first-seen order, joined with ", ".
C9_Original_EveryFieldDeduplicated ==
  Resolved =>
    /\ C9_FieldsButSubject
    /\ \A j \in 1..Len(threats) : \A d \in DetIdx(threats[j].id, {TypeMail}) :
          Get(detections[d].detail, "mail jemok") =
            C9_Joined([r \in 1..Len(MailMatched(threats[j])) |-> MailMatched(threats[j])[r].subject])

\* C9 amended: every row-derived detail field except the mail subject holds
\* the distinct non-empty values of the field (for the date, of the formatted
\* date) over the matched rows in first-seen order, joined with ", "; the mail
\* subject field holds every non-empty subject of the matched rows in row
\* order, duplicates kept, joined with " / ".
C9_Amended_SubjectsKeptAndSlashJoined ==
  Resolved =>
    /\ C9_FieldsButSubject
    /\ \A j \in 1..Len(threats) : \A d \in DetIdx(threats[j].id, {TypeMail}) :
          Get(detections[d].detail, "mail jemok") =
            C9_AllJoined([r \in 1..Len(MailMatched(threats[j])) |-> MailMatched(threats[j])[r].subject])

\* a returned Mail record built from three rows of which two have the same
\* subject and two the same sender, the equal senders not adjacent, next to a
\* merged record
C9_Witness ==
  /\ Resolved
  /\ \E j \in 1..Len(threats) :
        LET m == MailMatched(threats[j]) IN
        /\ DetIdx(threats[j].id, {TypeMail}) # {}
        /\ Len(m) = 3
        /\ \E a, b \in 1..3 : a # b /\ m[a].subject = m[b].subject
        /\ m[1].sender = m[3].sender /\ m[1].sender # m[2].sender
  /\ \E d \in 1..Len(detections) : detections[d].type = TypeNDRWAF

\* what the action cell of a row says: its text; "차단" when the cell is empty
C10_RowAction(r) == IF Truthy(C7_RawKept[r].action) THEN JsString(C7_RawKept[r].action) ELSE sBlock

\* the first ingested web firewall row that matches a threat
C10_FirstHit(threat) ==
  CHOOSE r \in C6_WafHits(threat) : \A q \in C6_WafHits(threat) : r <= q

\* C10 as stated: the action of a Mail record is "유입" and of an NDR record
\* "탐지"; the action of a standalone web firewall record is the action of its
\* first matched row ("차단" when that row has no action cell).
C10_Original_ActionOfFirstRow ==
  Resolved =>
    \A j \in 1..Len(threats) :
       /\ \A d \in DetIdx(threats[j].id, {TypeMail}) : detections[d].action = <<"yu", "ip">>
       /\ \A d \in DetIdx(threats[j].id, {TypeNDR}) : detections[d].action = sDetect
       /\ \A d \in DetIdx(threats[j].id, {TypeWAF}) :
             detections[d].action = C10_RowAction(C10_FirstHit(threats[j]))

\* the sum of the counts of the ingested web firewall rows that match a threat
C11_WafAmount(threat) ==
  SumOf([j \in 1..Len(WafMatched(threat)) |-> WafMatched(threat)[j].count])

\* C11: when the web firewall step finds an NDR record of count N for the
\* article it processes and its matched rows sum to M, that record comes out
\* with type NDR+WAF, action "탐지/차단", count N + M, a label built around
\* N + M, and a "조치량" text that reports N as detected by NDR and M as
\* blocked by the web firewall.
C11_MergedRecordReportsBothAmounts ==
  [][ ( /\ pc = "wafThreats"
        /\ ti <= Len(threats)
        /\ Len(WafMatched(threats[ti])) >= 1 )
      => \A b \in DetIdx(threats[ti].id, {TypeNDR}) :
            LET N == detections[b].count
                M == C11_WafAmount(threats[ti])
                d == detections'[b]
            IN /\ Len(detections') = Len(detections)
               /\ d.type = TypeNDRWAF
               /\ d.action = <<"tam", "ji", "/", "cha", "dan">>
               /\ d.count = N + M
               /\ d.label = <<"[NDR, webbanghwabyeok] ">> \o threats[ti].title
                              \o <<" gwallyeon ibenteu ">> \o NumToStr(N + M)
                              \o <<"geon tamji/chadan">>
               /\ Get(d.detail, "jochiryang") =
                    <<"NDR tamji ">> \o NumToStr(N) \o <<"geon">>
                      \o <<" / webbanghwabyeok chadan ">> \o NumToStr(M) \o <<"geon">> ]_vars

\* a returned merged record of two NDR rows and a web firewall amount other than the row count
C11_Witness ==
  /\ Resolved
  /\ \E j \in 1..Len(threats) :
        /\ Len(NdrMatched(threats[j])) = 2
        /\ C11_WafAmount(threats[j]) \notin {0, Len(WafMatched(threats[j]))}
        /\ \E d \in DetIdx(threats[j].id, {TypeNDRWAF}) :
              /\ detections[d].count = 2 + C11_WafAmount(threats[j])
              /\ Get(detections[d].detail, "jochiryang") =
                   <<"NDR tamji ">> \o Geon(2)
                     \o <<" / webbanghwabyeok chadan ">> \o Geon(C11_WafAmount(threats[j]))

\* the keys of a detail mapping
C12_Keys(detail) == {detail[j][1] : j \in 1..Len(detail)}

\* the keys the NDR phase writes, but for "조치량"
C12_NdrKeys ==
  {"logeuchulcheo", "NDR_RuleName", "logeu soseu", "soseu IP", "daesang IP",
   "maechingibenteugeonsu"}

\* the keys a merge adds
C12_WafKeys ==
  {"webbanghwabyeok_clientIP", "webbanghwabyeok_serverIP", "webbanghwabyeok_URLdomain",
   "webbanghwabyeok_ruleireum", "webbanghwabyeok_tamjigeungeo"}

\* C12: a step of the web firewall phase keeps every record already in the
\* list at its position; a Mail record and a record of another threat than
\* the one being processed stay equal; the NDR record of the processed threat
\* keeps its id, threatId and source, every key of its detail, and the value
\* of every key the NDR phase wrote other than "조치량".
C12_WafPhaseFrame ==
  [][ (pc \in {"waf", "wafThreats"})
      => ( /\ Len(detections') >= Len(detections)
           /\ \A b \in 1..Len(detections) :
               LET old == detections[b]
                   new == detections'[b]
               IN /\ ( \/ pc = "waf"
                       \/ old.type = TypeMail
                       \/ old.threatId # threats[ti].id ) => new = old
                  /\ new.id = old.id
                  /\ new.threatId = old.threatId
                  /\ new.source = old.source
                  /\ C12_Keys(old.detail) \subseteq C12_Keys(new.detail)
                  /\ C12_Keys(new.detail) \ C12_Keys(old.detail) \subseteq C12_WafKeys
                  /\ \A key \in C12_Keys(old.detail) \ {"jochiryang"} :
                        Get(new.detail, key) = Get(old.detail, key) ) ]_vars

\* a returned list where one threat has a Mail record and a merged record
\* that holds the NDR keys and the added keys, next to a record of another threat
C12_Witness ==
  /\ Resolved
  /\ \E j \in 1..Len(threats) :
        /\ \E d \in DetIdx(threats[j].id, {TypeMail}) :
              detections[d] = MailDetection(detections[d].id, threats[j], MailMatched(threats[j]))
        /\ \E d \in DetIdx(threats[j].id, {TypeNDRWAF}) :
              /\ C12_NdrKeys \cup C12_WafKeys \cup {"jochiryang"} = C12_Keys(detections[d].detail)
              /\ detections[d].source = "NDR"
        /\ \E d \in 1..Len(detections) : detections[d].threatId # threats[j].id

\* C13 as stated: the two active lists always belong together, both the
\* arrays of data.js or both the arrays built by the parse of one file.
C13_Original_PairFromOneBatch == activeThreats.obj = activeDetections.obj

\* a sheet name parseExcel looks at: one that begins with "뉴스기사", or the
\* exact name of one of the three log sheets
C14_Recognised(nm) ==
  \/ /\ Len(nm) >= 4
     /\ <<nm[1], nm[2], nm[3], nm[4]>> = <<"nyu", "seu", "gi", "sa">>
  \/ nm \in {SpamSheetName, NdrSheetName, WafSheetName}

C14_NoRecognisedSheet ==
  /\ wb.kind = "ok"
  /\ \A j \in 1..Len(wb.SheetNames) : ~C14_Recognised(wb.SheetNames[j])

\* C14: the parse of a readable workbook without a recognised sheet is never
\* rejected and both of its lists stay empty up to and in the result; and in
\* every state of every parse the detection list is empty when the threat
\* list is.
C14_NoSheetNoData ==
  /\ C14_NoRecognisedSheet => (pc # "rejected" /\ threats = <<>> /\ detections = <<>>)
  /\ threats = <<>> => detections = <<>>

\* a resolved parse of a workbook whose only sheet has an unrecognised name and a title in A1
C14_Witness ==
  /\ Resolved
  /\ C14_NoRecognisedSheet
  /\ Len(wb.SheetNames) = 1
  /\ JsString(wb.Sheets[wb.SheetNames[1]].A1) = TitleRansom
  /\ threats = <<>>
  /\ detections = <<>>

\* a resolved parse with all three log sheets holding matching rows and no threat
C14_WitnessLogsOnly ==
  /\ Resolved
  /\ HasSheet(SpamSheetName) /\ HasSheet(NdrSheetName) /\ HasSheet(WafSheetName)
  /\ Len(wb.Sheets[WafSheetName].rows) >= 2
  /\ threats = <<>>
  /\ detections = <<>>

\* the phase that creates a record of a type: 1 mail, 2 NDR, 3 web firewall
C15_Phase(type) ==
  IF type = TypeMail THEN 1 ELSE IF type \in {TypeNDR, TypeNDRWAF} THEN 2 ELSE 3

\* the position of a threat in the threat list
C15_ThreatPos(tid) == CHOOSE j \in 1..Len(threats) : threats[j].id = tid

\* C15: in the detection list, and so in the list the parse returns, a record
\* of an earlier phase stands before every record of a later phase (Mail,
\* then NDR and NDR+WAF, then WAF alone) and the records of one phase stand
\* in the order of their threats; a merged record is the NDR record (source
\* "NDR", the NDR keys in its detail) and a WAF record never holds NDR data.
C15_OrderedByPhaseThenThreat ==
  /\ \A a, b \in 1..Len(detections) :
        a < b =>
          \/ C15_Phase(detections[a].type) < C15_Phase(detections[b].type)
          \/ /\ C15_Phase(detections[a].type) = C15_Phase(detections[b].type)
             /\ C15_ThreatPos(detections[a].threatId) < C15_ThreatPos(detections[b].threatId)
  /\ \A d \in 1..Len(detections) :
        /\ detections[d].type = TypeNDRWAF =>
              /\ detections[d].source = "NDR"
              /\ C12_NdrKeys \subseteq C12_Keys(detections[d].detail)
        /\ detections[d].type = TypeWAF =>
              /\ detections[d].source = "webbanghwabyeok"
              /\ C12_Keys(detections[d].detail) \cap (C12_NdrKeys \ {"logeuchulcheo", "maechingibenteugeonsu"}) = {}

\* a returned list where an NDR-phase record of the second threat stands
\* before the web firewall record of the first threat
C15_Witness ==
  /\ Resolved
  /\ Len(threats) = 2
  /\ \E a, b \in 1..Len(detections) :
        /\ a < b
        /\ detections[a].type \in {TypeNDR, TypeNDRWAF}
        /\ detections[a].threatId = threats[2].id
        /\ detections[b].type = TypeWAF
        /\ detections[b].threatId = threats[1].id

\* the rows of an ingested row list at a set of positions, in row order
C16_RowsAt(rows, R) == SelectSeq([r \in 1..Len(rows) |-> IF r \in R THEN <<rows[r]>> ELSE <<>>],
                                 LAMBDA x : x # <<>>)

C16_Rows(rows, R) == [i \in 1..Len(C16_RowsAt(rows, R)) |-> C16_RowsAt(rows, R)[i][1]]

\* one if the set is not empty, else zero
C16_OneIf(R) == IF R = {} THEN 0 ELSE 1

\* C16: in the returned list a threat has a Mail record exactly if some mail
\* row matches it, a record of the NDR phase exactly if some NDR row matches
\* it, and a web firewall contribution (a record of its own when no NDR row
\* matches, else the merge) exactly if some web firewall row matches it; the
\* count and the row-derived detail of each record come from the rows that
\* match its threat alone, so a row that matches no threat is in none; and
\* the parse of a readable workbook is never rejected.
C16_ContributionIffMatch ==
  /\ wb.kind = "ok" => pc # "rejected"
  /\ Resolved =>
       \A j \in 1..Len(threats) :
          LET T == threats[j]
              hMail == C6_MailHits(T)
              hNdr == C6_NdrHits(T)
              hWaf == C6_WafHits(T)
              mMail == C16_Rows(spamRows, hMail)
              mNdr == C16_Rows(ndrRows, hNdr)
              mWaf == C16_Rows(wafRows, hWaf)
          IN /\ Cardinality(DetIdx(T.id, {TypeMail})) = C16_OneIf(hMail)
             /\ Cardinality(DetIdx(T.id, {TypeNDR, TypeNDRWAF})) = C16_OneIf(hNdr)
             /\ Cardinality(DetIdx(T.id, {TypeNDRWAF})) = C16_OneIf(hNdr) * C16_OneIf(hWaf)
             /\ Cardinality(DetIdx(T.id, {TypeWAF})) = (1 - C16_OneIf(hNdr)) * C16_OneIf(hWaf)
             /\ \A d \in DetIdx(T.id, {TypeMail}) :
                   /\ detections[d].count = Len(mMail)
                   /\ C9_MailFields(detections[d], mMail)
                   /\ Get(detections[d].detail, "mail jemok")
                        = C9_AllJoined([r \in 1..Len(mMail) |-> mMail[r].subject])
             /\ \A d \in DetIdx(T.id, {TypeNDR}) :
                   /\ detections[d].count = Len(mNdr)
                   /\ C9_NdrFields(detections[d], mNdr)
             /\ \A d \in DetIdx(T.id, {TypeNDRWAF}) :
                   /\ detections[d].count = Len(mNdr) + C6_WafSum(hWaf)
                   /\ C9_NdrFields(detections[d], mNdr)
                   /\ C9_MergedFields(detections[d], mWaf)
             /\ \A d \in DetIdx(T.id, {TypeWAF}) :
                   /\ detections[d].count = C6_WafSum(hWaf)
                   /\ C9_WafFields(detections[d], mWaf)

\* the ingested NDR rows that match no threat
C16_UnmatchedNdr == (1..Len(ndrRows)) \ UNION {C6_NdrHits(threats[j]) : j \in 1..Len(threats)}

\* a returned list of two threats where an ingested NDR row matches no threat
\* although its source IP holds a keyword, one threat has a record of the NDR
\* phase built from another row and the other threat has none
C16_Witness ==
  /\ Resolved
  /\ Len(threats) = 2
  /\ \E r \in C16_UnmatchedNdr : C6_Hit(threats[1], {ndrRows[r].srcIP})
  /\ DetIdx(threats[1].id, {TypeNDR, TypeNDRWAF}) # {}
  /\ DetIdx(threats[2].id, {TypeNDR, TypeNDRWAF}) = {}

\* lower case of one character, for the letters of the titles and queries
C17_Lower(c) ==
  CASE c = "A" -> "a" [] c = "C" -> "c" [] c = "D" -> "d" [] c = "E" -> "e"
    [] c = "K" -> "k" [] c = "M" -> "m" [] c = "N" -> "n" [] c = "O" -> "o"
    [] c = "R" -> "r" [] c = "S" -> "s" [] c = "T" -> "t" [] c = "W" -> "w"
    [] OTHER -> c

RECURSIVE C17_Norm(_)
\* a text without its white space, in lower case
C17_Norm(s) ==
  IF s = <<>> THEN <<>>
  ELSE IF Head(s) \in {" ", "\t", "\n"} THEN C17_Norm(Tail(s))
  ELSE <<C17_Lower(Head(s))>> \o C17_Norm(Tail(s))

\* the first eight characters of a text, the whole text when it is shorter
C17_First8(s) == [i \in 1..(IF Len(s) < 8 THEN Len(s) ELSE 8) |-> s[i]]

\* the positions of the threats that contain the query, and of those whose
\* first eight characters the query contains, both sides normalised
C17_ByContainment ==
  {j \in 1..Len(fmThreats) : C6_Contains(C17_Norm(fmThreats[j].title), C17_Norm(fmTitle.s))}
C17_ByPrefix ==
  {j \in 1..Len(fmThreats) :
      C6_Contains(C17_Norm(fmTitle.s), C17_First8(C17_Norm(fmThreats[j].title)))}

\* the least element of a non-empty set of positions
C17_Min(S) == CHOOSE j \in S : \A h \in S : j <= h

\* C17: a call with an empty article title returns no threat; otherwise it
\* returns the first threat in stored order that contains the query, if there
\* is none the first threat whose first eight characters the query contains,
\* and no threat if there is none either (titles and query compared without
\* white space and in lower case).
C17_ContainmentBeforePrefix ==
  pc = "returned" =>
    IF fmTitle.s = <<>> THEN fmOut.kind # "threat"
    ELSE IF C17_ByContainment # {}
         THEN /\ fmOut.kind = "threat"
              /\ fmOut.threat = fmThreats[C17_Min(C17_ByContainment)]
    ELSE IF C17_ByPrefix # {}
         THEN /\ fmOut.kind = "threat"
              /\ fmOut.threat = fmThreats[C17_Min(C17_ByPrefix)]
    ELSE fmOut.kind # "threat"

\* a call that returned the second threat, which contains the query, although
\* the first threat matches the query by its first eight characters
C17_Witness ==
  /\ pc = "returned"
  /\ Len(fmThreats) >= 2
  /\ 1 \in C17_ByPrefix
  /\ C17_Min(C17_ByContainment \cup {3}) = 2
  /\ fmOut.kind = "threat"
  /\ fmOut.threat.id = 2

\* a call that found no containing threat and returned the second threat by
\* the first eight of the ten characters of its title
C17_WitnessPrefix ==
  /\ pc = "returned"
  /\ C17_ByContainment = {}
  /\ C17_ByPrefix # {}
  /\ C17_Min(C17_ByPrefix) = 2
  /\ Len(C17_Norm(fmThreats[2].title)) > 8
  /\ fmOut.kind = "threat"
  /\ fmOut.threat.id = 2

\* the uploads whose handler has not finished
C18_InProgress == {u \in 1..Len(uploads) : uploads[u].at # "done"}

\* the selections whose parse returns at least one threat
C18_WithData ==
  {u \in 1..Len(uploads) : uploads[u].file \in {FullWb, ArticlesOnlyWb, NoMatchWb}}

\* the greatest element of a set of positions, 0 for the empty set
C18_Last(S) == IF S = {} THEN 0 ELSE CHOOSE u \in S : \A v \in S : v <= u

\* once every parse has settled, the active threats are those of the most
\* recently selected file that holds data
C18_LatestWins == C18_InProgress = {} => activeThreats.obj = C18_Last(C18_WithData)

\* C18 as stated: at most one upload is in progress at any time, and once all
\* parses have settled the active dataset is that of the most recently
\* selected file, never that of an earlier file whose parse finished later.
C18_Original_OneIngestionAtATime ==
  /\ Cardinality(C18_InProgress) <= 1
  /\ C18_LatestWins

\* the parse that is about to be handed to the upload handler failed: it was
\* rejected, or it resolved with two empty lists
C19_FailedParse ==
  \/ pc = "rejected"
  \/ pc = "resolved" /\ Len(threats) = 0 /\ Len(detections) = 0

\* C19: the handler's step for a rejected parse or for a parse that resolved
\* with both lists empty leaves the two active lists as they are and sets the
\* error status; and the active lists change in no step at all but the
\* handler's step for a resolved parse that holds data, which installs the
\* lists of that finished parse or the lists of data.js, never a list still
\* being built.
C19_FailedUploadKeepsActive ==
  [][ /\ C19_FailedParse =>
           /\ activeThreats' = activeThreats
           /\ activeDetections' = activeDetections
           /\ status' = "error"
           /\ pc' = "idle"
      /\ <<activeThreats, activeDetections>>' # <<activeThreats, activeDetections>> =>
           /\ pc = "resolved"
           /\ ~C19_FailedParse
           /\ activeThreats'.items \in {threats, THREATS}
           /\ activeDetections'.items \in {detections, DETECTIONS} ]_vars

\* the state after a failed upload that was selected after a successful one:
\* the data of the first upload is still active and the status shows the error
C19_Witness ==
  /\ pc = "idle"
  /\ Len(uploads) = 2
  /\ uploads[1].at = "done" /\ uploads[2].at = "done"
  /\ uploads[1].file = FullWb
  /\ uploads[2].file \in {CorruptWb, UnreadableWb, NoRecognisedWb}
  /\ activeThreats.obj = 1
  /\ activeDetections.obj = 1
  /\ status = "error"

\* the A1 texts of the article sheets that hold one, in sheet order
C20_ArticleTexts ==
  LET texts == [j \in 1..Len(wb.SheetNames) |->
                  IF C14_Recognised(wb.SheetNames[j])
                     /\ wb.SheetNames[j] \notin {SpamSheetName, NdrSheetName, WafSheetName}
                  THEN JsString(wb.Sheets[wb.SheetNames[j]].A1)
                  ELSE <<>>]
  IN SelectSeq(texts, LAMBDA t : t # <<>>)

\* C20: in every list the parse builds, and so in its result, the id of a
\* threat and of a detection is its position in its list, counted from 1; in
\* the result the threats are those of the article sheets with a non-empty A1
\* cell, in sheet order.
C20_IdsArePositions ==
  /\ \A j \in 1..Len(threats) : threats[j].id = j
  /\ \A d \in 1..Len(detections) : detections[d].id = d
  /\ Resolved =>
       /\ Len(threats) = Len(C20_ArticleTexts)
       /\ \A j \in 1..Len(threats) : threats[j].title = ThreatOf(0, C20_ArticleTexts[j]).title

\* a result where the first article sheet had an empty A1 cell and the second
\* gave threat 1, whose NDR record took a web firewall merge
C20_Witness ==
  /\ Resolved
  /\ Len(wb.SheetNames) >= 2
  /\ wb.SheetNames[1] = ArticleName(1)
  /\ JsString(wb.Sheets[ArticleName(1)].A1) = <<>>
  /\ Len(threats) = 1
  /\ threats[1].id = 1
  /\ Len(detections) = 2
  /\ detections[2].type = TypeNDRWAF
  /\ detections[2].id = 2

\* a result where a web firewall record of the second threat was pushed after
\* the merge for the first threat and took the next id
C20_WitnessAfterMerge ==
  /\ Resolved
  /\ \E d \in 1..Len(detections) :
        /\ d > 1
        /\ detections[d].type = TypeWAF
        /\ detections[d].id = d
        /\ detections[d - 1].type = TypeNDRWAF
        /\ detections[d - 1].threatId < detections[d].threatId

====
